---- MODULE Spec2Model ----
(***************************************************************************)
(* GitHub Sync Pro (src/.obsidian/plugins/github-sync-pro/main.js).        *)
(*                                                                         *)
(* The plugin reconciles the vault's files with a GitHub repository under  *)
(* three modes: local_to_remote (executePush), remote_to_local             *)
(* (executePull) and merge (executeMerge).  A sync() call is an async      *)
(* function: it runs to its next await, and other callbacks (timers, the   *)
(* sync button, a second sync() call) and the outside world (other writers *)
(* of the repository) run in between.  One step of a run in this model is  *)
(* the code from the resolution of one awaited call up to and including    *)
(* the next awaited remote or storage call and its effect.                 *)
(*                                                                         *)
(* Paths and exclusion rules are sequences of one-character strings, so    *)
(* that the rule matcher is computed character by character as the         *)
(* regular expression of isExcluded computes it.  File contents are        *)
(* abstract values; a blob's sha is a function of its content.             *)
(***************************************************************************)
EXTENDS Integers, Sequences, FiniteSets, TLC

VARIABLES
    settings,    \* this.settings: token, repo, branch, timers, excludedRules
    localFiles,  \* the vault: file path -> content, "absent" when no file
    localDirs,   \* the vault: the directories that exist
    remote,      \* the repository branch: file path -> content, "absent"
    runs,        \* the sync() activations: position, locals, what each did
    extWrites,   \* how many writes other clients of the repository made
    faults,      \* how many requests or storage calls failed on their own
    wire         \* one file content on its way through the transfer codec

vars == <<settings, localFiles, localDirs, remote, runs, extWrites, faults, wire>>

------------------------------------------------------------------------------
(* Bounds of the model *)

\* sync() calls in one behaviour of Spec
MaxRuns == 1
\* sync() calls in one behaviour of SpecOverlap, where they may overlap
MaxOverlap == 2
\* writes to the repository by other clients in one behaviour
MaxExternal == 1
\* requests and storage calls that fail on their own (network, storage) in
\* one behaviour; a request the repository rejects is not counted
MaxFaults == 1

\* bytes of a file content taken through the codec
MaxBytes == 4
\* white-space characters the transport puts into one encoded text
MaxBreaks == 1
\* addLog calls in one behaviour of SpecLog
MaxLogged == 11
\* entries of excludedRules the rule dialog is let to reach
MaxRules == 2

Runs == 1..MaxRuns
Overlapping == 1..MaxOverlap

------------------------------------------------------------------------------
(* The universe of paths, rules and contents *)

PA == <<"n", "/", "a">>
PB == <<"b">>
PC == <<"n", "/", "c">>
DN == <<"n">>
Root == <<>>

FilePaths == {PA, PB, PC}
DirPaths == {DN}

\* The order in which adapter.list reports names, and the tree listing its
\* entries: sorted by name.
FileOrder == <<PB, PA, PC>>
DirOrder == <<DN>>
TreeOrder == <<PB, DN, PA, PC>>

\* Candidate exclusion rules: a literal directory, a wildcard that matches
\* the directory name only, a wildcard prefix, a literal file, and a rule
\* holding the regular-expression character ".".
RuleUniverse ==
    { <<"n">>, <<"*", "n">>, <<"n", "*">>, <<"b">>, <<".">> }

Absent == "absent"
Contents == {"L", "R", "X"}
Undefined == "undefined"

\* The blob sha the repository reports for a content (content-addressed).
ShaOf(c) ==
    CASE c = "L" -> "shaL"
      [] c = "R" -> "shaR"
      [] c = "X" -> "shaX"
      [] OTHER -> Undefined

\* The excludedRules lists the model starts from.
RuleLists ==
    { <<>>, <<<<"n">>>>, <<<<"*", "n">>>>, <<<<"b">>>> }

\* The paths other clients of the repository write: one that the tree
\* lists and one that it does not.
ExtPaths == {PA, PB}

Modes == {"local_to_remote", "remote_to_local", "merge"}

------------------------------------------------------------------------------
(* Sequence helpers *)

Includes(seq, x) == \E k \in 1..Len(seq) : seq[k] = x

\* String.prototype.startsWith
StartsWith(s, pre) ==
    /\ Len(pre) <= Len(s)
    /\ SubSeq(s, 1, Len(pre)) = pre

------------------------------------------------------------------------------
(* isExcluded, main.js 127-132 *)

\* new RegExp('^' + rule.replace(/\*/g, '.*') + '$').test(path): every "*"
\* of the rule becomes ".*"; a "." of the rule is the regular expression's
\* any-character; every other character of the alphabet used here stands
\* for itself.
RECURSIVE RegexTest(_, _)
RegexTest(rule, path) ==
    IF rule = <<>> THEN path = <<>>
    ELSE IF Head(rule) = "*"
         THEN \/ RegexTest(Tail(rule), path)
              \/ path # <<>> /\ RegexTest(rule, Tail(path))
    ELSE IF Head(rule) = "."
         THEN path # <<>> /\ RegexTest(Tail(rule), Tail(path))
    ELSE path # <<>> /\ Head(path) = Head(rule) /\ RegexTest(Tail(rule), Tail(path))

\* One rule of the some(...) callback, line 130.
RuleMatches(rule, path) ==
    \/ RegexTest(rule, path)
    \/ StartsWith(path, rule \o <<"/">>)
    \/ path = rule

isExcluded(rules, path) ==
    \E k \in 1..Len(rules) : RuleMatches(rules[k], path)

------------------------------------------------------------------------------
(* The vault adapter and getAllFilesRecursively, main.js 60-78 *)

\* Index of the last "/" of a path, 0 when it has none.
RECURSIVE LastSlash(_, _)
LastSlash(p, k) ==
    IF k = 0 THEN 0
    ELSE IF p[k] = "/" THEN k
    ELSE LastSlash(p, k - 1)

\* The directory a path lies in; Root for a top-level name.
Parent(p) ==
    LET k == LastSlash(p, Len(p))
    IN IF k = 0 THEN Root ELSE SubSeq(p, 1, k - 1)

\* adapter.list(dir).files and .folders
ListFiles(files, dir) ==
    SelectSeq(FileOrder, LAMBDA p : files[p] # Absent /\ Parent(p) = dir)

ListFolders(dirs, dir) ==
    SelectSeq(DirOrder, LAMBDA d : d \in dirs /\ Parent(d) = dir)

RECURSIVE Flatten(_)
Flatten(seqs) ==
    IF seqs = <<>> THEN <<>> ELSE Head(seqs) \o Flatten(Tail(seqs))

\* Lines 65-69: the files of one directory that pass the filter.
KeptFiles(rules, files, dir) ==
    SelectSeq(ListFiles(files, dir), LAMBDA p : ~isExcluded(rules, p))

\* Lines 71-76: the folders the enumerator recurses into.
KeptFolders(rules, dirs, dir) ==
    SelectSeq(ListFolders(dirs, dir), LAMBDA d : ~isExcluded(rules, d))

RECURSIVE getAllFilesRecursively(_, _, _, _)
getAllFilesRecursively(rules, files, dirs, dir) ==
    LET sub == KeptFolders(rules, dirs, dir)
    IN KeptFiles(rules, files, dir)
         \o Flatten([k \in 1..Len(sub) |->
                        getAllFilesRecursively(rules, files, dirs, sub[k])])

\* path.split('/') and the prefixes built in lines 212-216: the ancestor
\* directories of a path, outermost first.
Ancestors(p) ==
    LET cuts == SelectSeq([k \in 1..Len(p) |-> k], LAMBDA k : p[k] = "/")
    IN [j \in 1..Len(cuts) |-> SubSeq(p, 1, cuts[j] - 1)]

------------------------------------------------------------------------------
(* The repository as the plugin sees it *)

\* GET /git/trees/{branch}?recursive=1: one entry per blob and per tree.
TreeEntry(rem, p) ==
    IF p \in FilePaths
    THEN [path |-> p, type |-> "blob", sha |-> ShaOf(rem[p])]
    ELSE [path |-> p, type |-> "tree", sha |-> Undefined]

InTree(rem, p) ==
    IF p \in FilePaths THEN rem[p] # Absent
    ELSE \E q \in FilePaths : rem[q] # Absent /\ StartsWith(q, p \o <<"/">>)

TreeListing(rem) ==
    LET present == SelectSeq(TreeOrder, LAMBDA p : InTree(rem, p))
    IN [k \in 1..Len(present) |-> TreeEntry(rem, present[k])]

\* Line 108: (treeRes.json.tree || []).filter(i => i.type === 'blob')
BlobsOf(tree) ==
    LET blobs == SelectSeq(tree, LAMBDA e : e.type = "blob")
    IN [k \in 1..Len(blobs) |-> [path |-> blobs[k].path, sha |-> blobs[k].sha]]

\* What a request is addressed to: the repository of its URL, the branch of
\* its URL or body, the token of its Authorization header (lines 86, 106,
\* 142-146, 157-160, 197-201, 208).
Target(s) == [repo |-> s.repo, branch |-> s.branch, token |-> s.token]

NoTarget == [repo |-> "none", branch |-> "none", token |-> "none"]

\* The variable `remote` is the branch main of the repository o/r.
AtHome(s) == s.repo = "o/r" /\ s.branch = "main"

\* Without a token, or without a repository in the URL, GitHub refuses the
\* request.
Refused(s) == s.token = "" \/ s.repo = ""

\* What another repository or another branch may hold when a request
\* reaches it: nothing, or a blob of its own at a path.
OtherBranches ==
    { [p \in FilePaths |-> Absent],
      [p \in FilePaths |-> IF p = PA THEN "X" ELSE Absent] }

\* The contents a request with the settings s is answered from.
Answers(s, rem) == IF AtHome(s) THEN {rem} ELSE OtherBranches

\* PUT /contents/{path}: with a sha the path's current blob must have it;
\* without one the path must not exist.
PutAccepted(rem, path, sha) ==
    IF sha = Undefined THEN rem[path] = Absent
    ELSE rem[path] # Absent /\ ShaOf(rem[path]) = sha

\* DELETE /contents/{path}: the sha must be the current blob's.
DeleteAccepted(rem, path, sha) ==
    rem[path] # Absent /\ ShaOf(rem[path]) = sha

------------------------------------------------------------------------------
(* The state of one sync() activation *)

NoEntry == [path |-> Root, sha |-> Undefined]

IdleRun ==
    [pc |-> "idle", mode |-> "none", remotes |-> <<>>, localPaths |-> <<>>,
     toDelete |-> <<>>, i |-> 1, cur |-> Root, buf |-> Absent, ret |-> "none",
     hist |-> <<>>, log |-> <<>>, outcome |-> "none", at |-> "none",
     preLocal |-> {}, preRemote |-> {}, began |-> {}, tree |-> NoTarget]

\* A remote request or a storage write the run issued: what, on which path,
\* with which sha, whether it succeeded, and the content it replaced or
\* removed (Absent when none, or when it failed).
Op(op, path, sha, ok, old) ==
    [op |-> op, path |-> path, sha |-> sha, ok |-> ok, old |-> old, to |-> NoTarget]

\* The requests a step added to a run's record, with what apiRequest and
\* the caller's URL and body addressed them to: this.settings as it was
\* when the request was made.
Addressed(before, after, s) ==
    [after EXCEPT !.hist =
        [k \in 1..Len(after.hist) |->
            IF k > Len(before.hist) /\ after.hist[k].op \in {"PUT", "DELETE", "GET"}
            THEN [after.hist[k] EXCEPT !.to = Target(s)]
            ELSE after.hist[k]]]

\* addLog, main.js 35-43, as far as one run's own entries go: the entries
\* a run adds, oldest first.
addLog(rs, tag, path) ==
    [rs EXCEPT !.log = Append(@, [tag |-> tag, path |-> path])]

Issued(rs, o) == [rs EXCEPT !.hist = Append(@, o)]

\* The check with the repository forgotten.
ConfigMissingTokenOnly(s) == s.token = ""

\* Line 100: the configuration check of sync().
ConfigMissing(s) == s.token = "" \/ s.repo = ""

\* The dispatch with the final else running executePush.
DispatchMergeAsPush(mode) ==
    IF mode = "remote_to_local" THEN "pull" ELSE "push_up"

\* The dispatch with the remote_to_local test never true.
DispatchPullAsMerge(mode) ==
    IF mode = "local_to_remote" THEN "push_up" ELSE "merge_up"

\* Lines 113-119: which executor a mode runs.
Dispatch(mode) ==
    IF mode = "local_to_remote" THEN "push_up"
    ELSE IF mode = "remote_to_local" THEN "pull"
    ELSE "merge_up"

\* remotes.find(r => r.path === path), lines 138 and 180
Find(remotes, path) ==
    LET hits == SelectSeq(remotes, LAMBDA e : e.path = path)
    IN IF hits = <<>> THEN NoEntry ELSE Head(hits)

HasMatch(remotes, path) == \E k \in 1..Len(remotes) : remotes[k].path = path

\* The PUT of executePush with the sha left out.
PushShaNone(remotes, path) == Undefined

\* Line 145: sha: remoteMatch ? remoteMatch.sha : undefined
PushSha(remotes, path) ==
    IF HasMatch(remotes, path) THEN Find(remotes, path).sha ELSE Undefined

\* Line 159: sha: rFile.sha
DeleteSha(rFile) == rFile.sha

\* Line 183, 200: uploadFile(path, content, null) sends sha: null || undefined
MergeSha(remotes, path) == Undefined

\* The filter of line 154 without its localPaths test.
toDeleteIgnoringLocal(rules, localPaths, remotes) ==
    SelectSeq(remotes, LAMBDA e : ~isExcluded(rules, e.path))

\* Line 154: remotes.filter(r => !localPaths.includes(r.path) && !this.isExcluded(r.path))
toDelete(rules, localPaths, remotes) ==
    SelectSeq(remotes, LAMBDA e : ~Includes(localPaths, e.path) /\ ~isExcluded(rules, e.path))

\* executePull without its exclusion test.
PullSkipsNothing(rules, rFile) == FALSE

\* Line 172: executePull skips excluded entries.
PullSkips(rules, rFile) == isExcluded(rules, rFile.path)

\* Lines 180-181: executeMerge uploads a local path only without a match.
MergeUploadSkips(remotes, path) == HasMatch(remotes, path)

\* Lines 188-189: executeMerge downloads only what is not excluded and is
\* not in localPaths.
MergeDownloadSkips(rules, localPaths, rFile) ==
    isExcluded(rules, rFile.path) \/ Includes(localPaths, rFile.path)

\* The synchronous code between two awaited calls of the executors: loop
\* exits, `continue`, and the conditions that need no call.  It stops where
\* the next awaited call is due, or at "finish" when execute* has returned.
RECURSIVE Skip(_, _)
Skip(rules, rs) ==
    CASE rs.pc = "push_up" ->
           IF rs.i > Len(rs.localPaths)
           THEN Skip(rules, [rs EXCEPT !.pc = "push_del", !.i = 1,
                                !.toDelete = toDelete(rules, rs.localPaths, rs.remotes)])
           ELSE rs
      [] rs.pc = "push_del" ->
           IF rs.i > Len(rs.toDelete) THEN [rs EXCEPT !.pc = "finish"] ELSE rs
      [] rs.pc = "pull" ->
           IF rs.i > Len(rs.remotes) THEN [rs EXCEPT !.pc = "finish"]
           ELSE IF PullSkips(rules, rs.remotes[rs.i])
                THEN Skip(rules, [rs EXCEPT !.i = @ + 1])
           ELSE rs
      [] rs.pc = "merge_up" ->
           IF rs.i > Len(rs.localPaths)
           THEN Skip(rules, [rs EXCEPT !.pc = "merge_down", !.i = 1])
           ELSE IF MergeUploadSkips(rs.remotes, rs.localPaths[rs.i])
                THEN Skip(rules, [rs EXCEPT !.i = @ + 1])
           ELSE rs
      [] rs.pc = "merge_down" ->
           IF rs.i > Len(rs.remotes) THEN [rs EXCEPT !.pc = "finish"]
           ELSE IF MergeDownloadSkips(rules, rs.localPaths, rs.remotes[rs.i])
                THEN Skip(rules, [rs EXCEPT !.i = @ + 1])
           ELSE rs
      [] OTHER -> rs

\* The run as it stands when its next awaited call is issued.
Now(r) == Skip(settings.excludedRules, runs[r])

\* The catch of sync() recording the error without the call returning.
ThrownUnsettled(rs) ==
    [addLog(rs, "error", Root) EXCEPT !.outcome = "error", !.at = rs.pc]

\* Lines 122-124: an exception that reaches sync()'s catch ends the run.
Thrown(rs) ==
    [addLog(rs, "error", Root) EXCEPT !.pc = "done", !.outcome = "error", !.at = rs.pc]

------------------------------------------------------------------------------
(* The transfer codec, main.js 227-239 *)

\* Bytes are 0..255.  A character of an encoded text is its index 0..63 in
\* the base64 alphabet, Pad for "=", or one of the white-space characters
\* a transport puts in.
Pad == 64
Newline == 65
Space == 66
WhiteSpace == {Newline, Space}

\* window.btoa of a binary string, one character per byte: three bytes
\* make four characters, a rest of one or two bytes is padded with "=".
RECURSIVE Btoa(_)
Btoa(bin) ==
    IF bin = <<>> THEN <<>>
    ELSE IF Len(bin) = 1
         THEN << bin[1] \div 4, (bin[1] % 4) * 16, Pad, Pad >>
    ELSE IF Len(bin) = 2
         THEN << bin[1] \div 4, (bin[1] % 4) * 16 + bin[2] \div 16,
                 (bin[2] % 16) * 4, Pad >>
    ELSE << bin[1] \div 4, (bin[1] % 4) * 16 + bin[2] \div 16,
            (bin[2] % 16) * 4 + bin[3] \div 64, bin[3] % 64 >>
            \o Btoa(SubSeq(bin, 4, Len(bin)))

\* Line 230: binary += String.fromCharCode(bytes[i]), for every byte.
BinaryString(bytes) == [i \in 1..Len(bytes) |-> bytes[i]]

\* The loop of line 230 stopping one byte early.
arrayBufferToBase64Short(buffer) ==
    Btoa(BinaryString(SubSeq(buffer, 1, Len(buffer) - 1)))

\* Lines 227-232.
arrayBufferToBase64(buffer) == Btoa(BinaryString(buffer))

\* Line 235: base64.replace(/\s/g, '')
StripWhiteSpace(text) == SelectSeq(text, LAMBDA ch : ch \notin WhiteSpace)

\* The bytes of full groups of four characters, then of a rest of two or
\* three characters, whose spare bits are dropped.
RECURSIVE DecodeGroups(_)
DecodeGroups(t) ==
    IF Len(t) < 2 THEN <<>>
    ELSE IF Len(t) = 2
         THEN << t[1] * 4 + t[2] \div 16 >>
    ELSE IF Len(t) = 3
         THEN << t[1] * 4 + t[2] \div 16, (t[2] % 16) * 16 + t[3] \div 4 >>
    ELSE << t[1] * 4 + t[2] \div 16, (t[2] % 16) * 16 + t[3] \div 4,
            (t[3] % 4) * 64 + t[4] >>
            \o DecodeGroups(SubSeq(t, 5, Len(t)))

InvalidCharacterError == "InvalidCharacterError"

\* window.atob: white space is dropped, one or two "=" at the end of a text
\* whose length is a multiple of four are dropped, and what is left must be
\* alphabet characters, not one more than a multiple of four.
Atob(text) ==
    LET t == StripWhiteSpace(text)
        n == Len(t)
        pads == IF n % 4 = 0 /\ n > 0 /\ t[n] = Pad
                THEN (IF t[n - 1] = Pad THEN 2 ELSE 1)
                ELSE 0
        body == SubSeq(t, 1, n - pads)
    IN IF (\E k \in 1..Len(body) : body[k] \notin 0..63) \/ Len(body) % 4 = 1
       THEN InvalidCharacterError
       ELSE DecodeGroups(body)

\* Lines 234-239: the bytes are the character codes of atob's result; an
\* exception of atob leaves the function.
base64ToArrayBuffer(base64) ==
    LET binary_string == Atob(StripWhiteSpace(base64))
    IN IF binary_string = InvalidCharacterError THEN InvalidCharacterError
       ELSE [i \in 1..Len(binary_string) |-> binary_string[i]]

\* The byte values file contents are made of here: the ends of the range,
\* a line feed, and the first value with the high bit set.
ByteValues == {0, 10, 128, 255}

ByteSeqs == UNION {[1..n -> ByteValues] : n \in 0..MaxBytes}

\* Lines 141 and 196: the content read from the vault is encoded for the
\* body of the PUT.
Encode ==
    /\ wire.pc = "raw"
    /\ wire' = [wire EXCEPT !.pc = "text", !.text = arrayBufferToBase64(wire.bytes)]
    /\ UNCHANGED <<settings, localFiles, localDirs, remote, runs, extWrites, faults>>

InsertAt(text, k, ch) == SubSeq(text, 1, k) \o <<ch>> \o SubSeq(text, k + 1, Len(text))

\* Line 208: the content of the GET response, as the transport wrapped it:
\* a white-space character put in after the first k characters.
Wrap(k, ch) ==
    /\ wire.pc = "text"
    /\ wire.breaks < MaxBreaks
    /\ k \in 0..Len(wire.text)
    /\ wire' = [wire EXCEPT !.text = InsertAt(@, k, ch), !.breaks = @ + 1]
    /\ UNCHANGED <<settings, localFiles, localDirs, remote, runs, extWrites, faults>>

\* Line 209: the content of the response is decoded for writeBinary.
Decode ==
    /\ wire.pc = "text"
    /\ wire' = [wire EXCEPT !.pc = "decoded", !.out = base64ToArrayBuffer(wire.text)]
    /\ UNCHANGED <<settings, localFiles, localDirs, remote, runs, extWrites, faults>>

\* No content is in the codec's hands.
NoTransfer == [pc |-> "none", bytes |-> <<>>, text |-> <<>>, out |-> <<>>, breaks |-> 0]

------------------------------------------------------------------------------
(* Initial states *)

\* this.settings after loadSettings (lines 20-31), as saved data may have
\* left it: complete, or with the token or the repository missing.
Configs ==
    { [token |-> "tok", repo |-> "o/r", branch |-> "main",
       syncInterval |-> 1, autoSyncAfterEdit |-> 1, isTokenLocked |-> TRUE],
      [token |-> "", repo |-> "o/r", branch |-> "main",
       syncInterval |-> 0, autoSyncAfterEdit |-> 1, isTokenLocked |-> FALSE],
      [token |-> "tok", repo |-> "", branch |-> "main",
       syncInterval |-> 1, autoSyncAfterEdit |-> 0, isTokenLocked |-> TRUE] }

\* settings.logs is the log panel that addLog writes and the settings tab
\* shows.  The entries a run adds are kept with the run (its log field);
\* the panel itself is followed in SpecLog.
WithRules(c, rules) ==
    [token |-> c.token, repo |-> c.repo, branch |-> c.branch,
     syncInterval |-> c.syncInterval, autoSyncAfterEdit |-> c.autoSyncAfterEdit,
     excludedRules |-> rules, logs |-> <<>>, isTokenLocked |-> c.isTokenLocked]

\* The directories a set of files needs.
DirsOf(files) ==
    {d \in DirPaths : \E p \in FilePaths : files[p] # Absent /\ StartsWith(p, d \o <<"/">>)}

\* The vault and the repository before the first sync: the files of each.
Worlds ==
    { [local |-> {PA, PB}, remote |-> {PA, PC}],
      [local |-> {PB}, remote |-> {PA, PC}] }

Init ==
    /\ \E c \in Configs, rules \in RuleLists :
          settings = WithRules(c, rules)
    /\ \E w \in Worlds :
          /\ localFiles = [p \in FilePaths |-> IF p \in w.local THEN "L" ELSE Absent]
          /\ remote = [p \in FilePaths |-> IF p \in w.remote THEN "R" ELSE Absent]
    /\ localDirs = DirsOf(localFiles)
    /\ runs = [r \in Overlapping |-> IdleRun]
    /\ extWrites = 0
    /\ faults = 0
    /\ wire = NoTransfer

------------------------------------------------------------------------------
(* sync(), main.js 99-125 *)

\* The ways the awaited call of a step may fail on its own: none, or one of
\* `kinds` while the behaviour has faults left.
FaultChoices(kinds) ==
    {"none"} \cup (IF faults < MaxFaults THEN kinds ELSE {})

\* A fault is counted when it changed what the step did.
Counted(fault, after, clean) ==
    /\ fault # "none" => after # clean
    /\ faults' = IF fault = "none" THEN faults ELSE faults + 1

\* The files of the vault, or of the repository.
Present(f) == {p \in FilePaths : f[p] # Absent}

\* For the record: what the vault and the repository held when sync() was
\* called.
Observed(rs, files, rem) ==
    [rs EXCEPT !.preLocal = Present(files), !.preRemote = Present(rem)]

\* For the record: the activations that had returned when this one was
\* called.
Returned == {q \in Overlapping : runs[q].pc = "done"}

\* Lines 100-108: the call itself, its tree request and the blob filter.  A
\* failed request throws into the catch of line 122.
Started(rs, s, rem, mode, ok) ==
    LET begun == [addLog(rs, "start", Root) EXCEPT !.pc = "tree", !.mode = mode,
                                                   !.tree = Target(s)]
    IN IF ConfigMissing(s)
       THEN [rs EXCEPT !.pc = "done", !.mode = mode, !.outcome = "noconfig",
                       !.at = "config"]
       ELSE IF ok
            THEN [begun EXCEPT !.pc = "list", !.remotes = BlobsOf(TreeListing(rem))]
       ELSE Thrown(begun)

Sync(r, mode) ==
    /\ runs[r].pc = "idle"
    /\ \A q \in Overlapping : q < r => runs[q].pc # "idle"
    /\ \E fault \in FaultChoices({"net"}), rem \in Answers(settings, remote) :
          LET seen == [Observed(runs[r], localFiles, remote) EXCEPT !.began = Returned]
              after == Started(seen, settings, rem, mode, fault # "net")
              clean == Started(seen, settings, rem, mode, TRUE)
          IN /\ runs' = [runs EXCEPT ![r] = after]
             /\ Counted(fault, after, clean)
    /\ UNCHANGED <<wire, settings, localFiles, localDirs, remote, extWrites>>

\* Line 47: the fixed-interval timer, registered when syncInterval > 0.
TimerSync(r) ==
    /\ settings.syncInterval > 0
    /\ Sync(r, "merge")

\* Lines 49-56: the 5-second timer, firing sync when the vault has been
\* idle for autoSyncAfterEdit seconds.
IdleSync(r) ==
    /\ settings.autoSyncAfterEdit > 0
    /\ Sync(r, "merge")

\* Lines 289, 306-308: the sync button and the mode chosen in the dialog;
\* the settings tab shows the button once the token is locked (269).
ManualSync(r, mode) ==
    /\ settings.isTokenLocked
    /\ Sync(r, mode)

\* First awaited call's log line of executePush (135) and executePull (170).
Entered(rs) ==
    IF rs.pc = "push_up" THEN addLog(rs, "push", Root)
    ELSE IF rs.pc = "pull" THEN addLog(rs, "pull", Root)
    ELSE rs

\* Lines 111-119: the local enumeration, then the executor of the mode.
Listed(rs, rules, files, dirs, ok) ==
    IF ok
    THEN Entered([rs EXCEPT !.pc = Dispatch(rs.mode), !.i = 1,
                            !.localPaths = getAllFilesRecursively(rules, files, dirs, Root)])
    ELSE Thrown(rs)

ListLocal(r) ==
    /\ runs[r].pc = "list"
    /\ \E fault \in FaultChoices({"list"}) :
          LET after == Listed(runs[r], settings.excludedRules, localFiles, localDirs,
                              fault # "list")
              clean == Listed(runs[r], settings.excludedRules, localFiles, localDirs, TRUE)
          IN /\ runs' = [runs EXCEPT ![r] = after]
             /\ Counted(fault, after, clean)
    /\ UNCHANGED <<wire, settings, localFiles, localDirs, remote, extWrites>>

\* Lines 120-121: execute* returned.
Complete(r) ==
    /\ Now(r).pc = "finish"
    /\ runs' = [runs EXCEPT ![r] =
                  [addLog(Now(r), "done", Root) EXCEPT !.pc = "done", !.outcome = "completed",
                                                   !.at = "finish"]]
    /\ UNCHANGED <<wire, settings, localFiles, localDirs, remote, extWrites, faults>>

------------------------------------------------------------------------------
(* executePush, main.js 134-167 *)

\* Lines 136-152, one iteration: readBinary outside the try, the PUT inside.
\* A failed read throws out of executePush into sync()'s catch.
PushUploadStep(rs, rem, content, readOk, netOk) ==
    LET path == rs.localPaths[rs.i]
        sha == PushSha(rs.remotes, path)
        read == Issued(rs, Op("read", path, Undefined, readOk /\ content # Absent, Absent))
        ok == netOk /\ PutAccepted(rem, path, sha)
    IN IF ~(readOk /\ content # Absent) THEN Thrown(read)
       ELSE [addLog(Issued(read, Op("PUT", path, sha, ok, IF ok THEN rem[path] ELSE Absent)),
                    IF ok THEN "uploaded" ELSE "upload_failed", path)
               EXCEPT !.i = @ + 1]

PushUpload(r) ==
    /\ Now(r).pc = "push_up"
    /\ \E fault \in FaultChoices({"read", "net"}), rem \in Answers(settings, remote) :
          LET rs == Now(r)
              path == rs.localPaths[rs.i]
              content == localFiles[path]
              after == PushUploadStep(rs, rem, content, fault # "read",
                                      fault # "net" /\ ~Refused(settings))
              clean == PushUploadStep(rs, rem, content, TRUE, ~Refused(settings))
              sent == after.pc # "done" /\ after.hist[Len(after.hist)].ok
          IN /\ runs' = [runs EXCEPT ![r] = Addressed(runs[r], after, settings)]
             /\ Counted(fault, after, clean)
             /\ remote' = IF sent /\ AtHome(settings)
                          THEN [remote EXCEPT ![path] = content] ELSE remote
    /\ UNCHANGED <<wire, settings, localFiles, localDirs, extWrites>>

\* Lines 155-166, one iteration: the DELETE inside its own try.
PushDeleteStep(rs, rem, netOk) ==
    LET rFile == rs.toDelete[rs.i]
        sha == DeleteSha(rFile)
        ok == netOk /\ DeleteAccepted(rem, rFile.path, sha)
    IN [addLog(Issued(rs, Op("DELETE", rFile.path, sha, ok,
                             IF ok THEN rem[rFile.path] ELSE Absent)),
               IF ok THEN "deleted" ELSE "delete_failed", rFile.path)
          EXCEPT !.i = @ + 1]

PushDelete(r) ==
    /\ Now(r).pc = "push_del"
    /\ \E fault \in FaultChoices({"net"}), rem \in Answers(settings, remote) :
          LET rs == Now(r)
              path == rs.toDelete[rs.i].path
              after == PushDeleteStep(rs, rem, fault # "net" /\ ~Refused(settings))
              clean == PushDeleteStep(rs, rem, ~Refused(settings))
          IN /\ runs' = [runs EXCEPT ![r] = Addressed(runs[r], after, settings)]
             /\ Counted(fault, after, clean)
             /\ remote' = IF after.hist[Len(after.hist)].ok /\ AtHome(settings)
                          THEN [remote EXCEPT ![path] = Absent] ELSE remote
    /\ UNCHANGED <<wire, settings, localFiles, localDirs, extWrites>>

------------------------------------------------------------------------------
(* executeMerge's upload loop and uploadFile, main.js 179-185, 195-204 *)

\* One iteration that uploads: readBinary, then uploadFile; neither is
\* inside a try, so a failure of either throws into sync()'s catch.
MergeUploadStep(rs, rem, content, readOk, netOk) ==
    LET path == rs.localPaths[rs.i]
        sha == MergeSha(rs.remotes, path)
        read == Issued(rs, Op("read", path, Undefined, readOk /\ content # Absent, Absent))
        ok == netOk /\ PutAccepted(rem, path, sha)
        sent == Issued(read, Op("PUT", path, sha, ok, IF ok THEN rem[path] ELSE Absent))
    IN IF ~(readOk /\ content # Absent) THEN Thrown(read)
       ELSE IF ~ok THEN Thrown(sent)
       ELSE [addLog(sent, "new_upload", path) EXCEPT !.i = @ + 1]

MergeUpload(r) ==
    /\ Now(r).pc = "merge_up"
    /\ \E fault \in FaultChoices({"read", "net"}), rem \in Answers(settings, remote) :
          LET rs == Now(r)
              path == rs.localPaths[rs.i]
              content == localFiles[path]
              after == MergeUploadStep(rs, rem, content, fault # "read",
                                       fault # "net" /\ ~Refused(settings))
              clean == MergeUploadStep(rs, rem, content, TRUE, ~Refused(settings))
          IN /\ runs' = [runs EXCEPT ![r] = Addressed(runs[r], after, settings)]
             /\ Counted(fault, after, clean)
             /\ remote' = IF after.pc # "done" /\ AtHome(settings)
                          THEN [remote EXCEPT ![path] = content] ELSE remote
    /\ UNCHANGED <<wire, settings, localFiles, localDirs, extWrites>>

------------------------------------------------------------------------------
(* downloadFile, main.js 206-225, called by executePull (173) and by      *)
(* executeMerge (190)                                                     *)

\* Line 224: the catch of downloadFile; the caller's loop goes on.
DownloadFailed(rs, path) ==
    [addLog(rs, "download_failed", path)
       EXCEPT !.pc = IF @ = "mkdir" THEN rs.ret ELSE @, !.i = @ + 1,
              !.cur = Root, !.buf = Absent, !.ret = "none"]

\* Lines 215-220: the ancestors of the path, outermost first, from the one
\* after `from`, that adapter.exists reports missing.
MissingFrom(dirs, path, from) ==
    SelectSeq(Ancestors(path), LAMBDA d : Len(d) > Len(from) /\ d \notin dirs)

\* Lines 222-223: writeBinary and the log line.
WriteStep(rs, files, path, content, writeOk) ==
    LET wrote == Issued(rs, Op("write", path, Undefined, writeOk,
                               IF writeOk THEN files[path] ELSE Absent))
    IN IF writeOk
       THEN [addLog(wrote, "downloaded", path)
               EXCEPT !.pc = IF @ = "mkdir" THEN rs.ret ELSE @, !.i = @ + 1,
                      !.cur = Root, !.buf = Absent, !.ret = "none"]
       ELSE DownloadFailed(wrote, path)

\* After the content is decoded, or after a mkdir: the exists() checks up
\* to the next missing ancestor, where mkdir is due, or else the write.
DirsThenWrite(rs, files, dirs, path, content, from, writeOk) ==
    LET missing == MissingFrom(dirs, path, from)
    IN IF missing # <<>>
       THEN [rs EXCEPT !.ret = IF rs.pc = "mkdir" THEN rs.ret ELSE rs.pc,
                       !.pc = "mkdir", !.cur = Head(missing), !.buf = content]
       ELSE WriteStep(rs, files, path, content, writeOk)

\* Lines 208-209 and on: the GET of the content (it fails when the request
\* does or the path is gone), the decoding, and what follows up to the
\* first mkdir or the write.
DownloadStep(rs, rem, files, dirs, netOk, writeOk) ==
    LET path == rs.remotes[rs.i].path
        ok == netOk /\ rem[path] # Absent
        got == Issued(rs, Op("GET", path, Undefined, ok, Absent))
    IN IF ~ok THEN DownloadFailed(got, path)
       ELSE DirsThenWrite(got, files, dirs, path, rem[path], Root, writeOk)

\* What adapter.mkdir may do with a directory: it creates a missing one;
\* for one that exists the adapter of the platform either resolves or
\* rejects ("already exists"), and downloadFile is written against both.
MkdirAnswers(dirs, dir) ==
    IF dir \in dirs THEN {"resolves", "rejects"} ELSE {"resolves"}

\* Line 218: mkdir of the missing ancestor, then the rest of downloadFile.
\* The entry records whether the directory was there when mkdir was called.
MkdirStep(rs, files, dirs, mkdirOk, writeOk) ==
    LET path == rs.remotes[rs.i].path
        made == Issued(rs, Op("mkdir", rs.cur, Undefined, mkdirOk,
                              IF rs.cur \in dirs THEN "dir" ELSE Absent))
    IN IF ~mkdirOk THEN DownloadFailed(made, path)
       ELSE DirsThenWrite(made, files, dirs \cup {rs.cur}, path, rs.buf, rs.cur, writeOk)

Download(r) ==
    /\ Now(r).pc \in {"pull", "merge_down"}
    /\ \E fault \in FaultChoices({"net", "write"}), rem \in Answers(settings, remote) :
          LET rs == Now(r)
              path == rs.remotes[rs.i].path
              after == DownloadStep(rs, rem, localFiles, localDirs,
                                    fault # "net" /\ ~Refused(settings), fault # "write")
              clean == DownloadStep(rs, rem, localFiles, localDirs, ~Refused(settings), TRUE)
              last == after.hist[Len(after.hist)]
          IN /\ runs' = [runs EXCEPT ![r] = Addressed(runs[r], after, settings)]
             /\ Counted(fault, after, clean)
             /\ localFiles' = IF last.op = "write" /\ last.ok
                              THEN [localFiles EXCEPT ![path] = rem[path]]
                              ELSE localFiles
    /\ UNCHANGED <<wire, settings, localDirs, remote, extWrites>>

DownloadMkdir(r) ==
    /\ runs[r].pc = "mkdir"
    /\ \E fault \in FaultChoices({"mkdir", "write"}),
          answer \in MkdirAnswers(localDirs, runs[r].cur) :
          LET rs == runs[r]
              path == rs.remotes[rs.i].path
              after == MkdirStep(rs, localFiles, localDirs,
                                 fault # "mkdir" /\ answer = "resolves", fault # "write")
              clean == MkdirStep(rs, localFiles, localDirs, answer = "resolves", TRUE)
              last == after.hist[Len(after.hist)]
          IN /\ runs' = [runs EXCEPT ![r] = after]
             /\ Counted(fault, after, clean)
             /\ localDirs' = IF fault # "mkdir" /\ answer = "resolves"
                              THEN localDirs \cup {rs.cur} ELSE localDirs
             /\ localFiles' = IF last.op = "write" /\ last.ok
                              THEN [localFiles EXCEPT ![path] = rs.buf]
                              ELSE localFiles
    /\ UNCHANGED <<wire, settings, remote, extWrites>>

------------------------------------------------------------------------------
(* Other clients of the repository *)

\* A commit by someone else while a sync is under way: a path gets new
\* content, or is removed.
ExternalWrite(p, c) ==
    /\ extWrites < MaxExternal
    /\ \E r \in Overlapping : runs[r].pc \notin {"idle", "done"}
    /\ c # remote[p]
    /\ remote' = [remote EXCEPT ![p] = c]
    /\ extWrites' = extWrites + 1
    /\ UNCHANGED <<wire, settings, localFiles, localDirs, runs, faults>>

------------------------------------------------------------------------------
(* GithubSyncSettingTab.display, main.js 245-298 *)

\* Lines 3-8.
DEFAULT_EXCLUDES ==
    << <<".", "g", "i", "t">>,
       <<".", "o", "b", "s", "i", "d", "i", "a", "n", "/", "w", "o", "r", "k", "s", "p", "a", "c", "e", ".", "j", "s", "o", "n">>,
       <<".", "o", "b", "s", "i", "d", "i", "a", "n", "/", "w", "o", "r", "k", "s", "p", "a", "c", "e", "-", "m", "o", "b", "i", "l", "e", ".", "j", "s", "o", "n">>,
       <<"n", "o", "d", "e", "_", "m", "o", "d", "u", "l", "e", "s">> >>

\* What the dropdowns and the token field offer besides the values the
\* model starts with.
RepoOptions == {"", "o/r", "o/x"}
BranchOptions == {"main", "dev"}
TokenInputs == {"", "tok"}

\* Line 251: the token field, enabled while the token is not locked.
EditToken(v) ==
    /\ ~settings.isTokenLocked
    /\ v # settings.token
    /\ settings' = [settings EXCEPT !.token = v]
    /\ UNCHANGED <<wire, localFiles, localDirs, remote, runs, extWrites, faults>>

\* Lines 259-265: "verify and lock": GET /user with the token, then lock.
VerifyAndLock ==
    /\ ~settings.isTokenLocked
    /\ settings.token # ""
    /\ settings' = [settings EXCEPT !.isTokenLocked = TRUE]
    /\ UNCHANGED <<wire, localFiles, localDirs, remote, runs, extWrites, faults>>

\* Lines 253-258: "reset and delete the configuration", once confirmed.
Reset ==
    /\ settings.isTokenLocked
    /\ settings' = [token |-> "", repo |-> "", branch |-> "main", syncInterval |-> 0,
                    autoSyncAfterEdit |-> 0, excludedRules |-> DEFAULT_EXCLUDES,
                    logs |-> <<>>, isTokenLocked |-> FALSE]
    /\ UNCHANGED <<wire, localFiles, localDirs, remote, runs, extWrites, faults>>

\* Line 275: the repository dropdown, shown once the token is locked.
SelectRepo(v) ==
    /\ settings.isTokenLocked
    /\ v # settings.repo
    /\ settings' = [settings EXCEPT !.repo = v]
    /\ UNCHANGED <<wire, localFiles, localDirs, remote, runs, extWrites, faults>>

\* Line 282: the branch dropdown, shown once a repository is chosen.
SelectBranch(v) ==
    /\ settings.isTokenLocked
    /\ settings.repo # ""
    /\ v # settings.branch
    /\ settings' = [settings EXCEPT !.branch = v]
    /\ UNCHANGED <<wire, localFiles, localDirs, remote, runs, extWrites, faults>>

SettingsEdit ==
    \/ \E v \in TokenInputs : EditToken(v)
    \/ VerifyAndLock
    \/ Reset
    \/ \E v \in RepoOptions : SelectRepo(v)
    \/ \E v \in BranchOptions : SelectBranch(v)

------------------------------------------------------------------------------
(* The log panel: addLog, main.js 35-43, and its buttons *)

\* Line 39: the length above which addLog drops an entry.
LogCapacity == 10

\* addLog keeping every entry.
unshiftLogUncapped(logs, entry) == <<entry>> \o logs

\* Lines 38-39: logs.unshift(fullMsg); if (logs.length > 10) logs.pop().
unshiftLog(logs, entry) ==
    LET pushed == <<entry>> \o logs
    IN IF Len(pushed) > LogCapacity THEN SubSeq(pushed, 1, Len(pushed) - 1) ELSE pushed

\* Line 36: the time an entry is stamped with, counted in entries logged
\* since the plugin was loaded.
Clock ==
    LET RECURSIVE Sum(_)
        Sum(k) == IF k = 0 THEN 0 ELSE Len(runs[k].log) + Sum(k - 1)
    IN Sum(MaxOverlap)

\* The panel as an earlier session saved it: k entries, the newest first.
SavedLog(k) == [i \in 1..k |-> [n |-> 1 - i, by |-> 0]]

\* One addLog call of activation r.  addLog runs without awaiting, so the
\* calls of overlapping activations reach the panel one at a time, in any
\* order.
LogCall(r) ==
    /\ Clock < MaxLogged
    /\ runs' = [runs EXCEPT ![r] = addLog(@, "start", Root)]
    /\ settings' = [settings EXCEPT !.logs = unshiftLog(@, [n |-> Clock + 1, by |-> r])]
    /\ UNCHANGED <<wire, localFiles, localDirs, remote, extWrites, faults>>

\* Line 297: the "clear log" button, below the settings of a locked token.
ClearLog ==
    /\ settings.isTokenLocked
    /\ settings.logs # <<>>
    /\ settings' = [settings EXCEPT !.logs = <<>>]
    /\ UNCHANGED <<wire, localFiles, localDirs, remote, runs, extWrites, faults>>

------------------------------------------------------------------------------
(* RuleModal, main.js 312-332 *)

\* Line 323: the delete button of row i: excludedRules.splice(i, 1).
RemoveAt(rules, i) ==
    SubSeq(rules, 1, i - 1) \o SubSeq(rules, i + 1, Len(rules))

RemoveRule(i) ==
    /\ i \in 1..Len(settings.excludedRules)
    /\ settings' = [settings EXCEPT !.excludedRules = RemoveAt(@, i)]
    /\ UNCHANGED <<wire, localFiles, localDirs, remote, runs, extWrites, faults>>

\* Lines 328-329: the add button: a non-empty input is pushed.
AddRule(v) ==
    /\ v # <<>>
    /\ Len(settings.excludedRules) < MaxRules
    /\ settings' = [settings EXCEPT !.excludedRules = Append(@, v)]
    /\ UNCHANGED <<wire, localFiles, localDirs, remote, runs, extWrites, faults>>

RuleEdit ==
    \/ \E i \in 1..MaxRules + 1 : RemoveRule(i)
    \/ \E v \in RuleUniverse : AddRule(v)

------------------------------------------------------------------------------
(* The specification *)

\* The steps of activation r.
RunStep(r) ==
    \/ TimerSync(r)
    \/ IdleSync(r)
    \/ \E mode \in Modes : ManualSync(r, mode)
    \/ ListLocal(r)
    \/ PushUpload(r)
    \/ PushDelete(r)
    \/ MergeUpload(r)
    \/ Download(r)
    \/ DownloadMkdir(r)
    \/ Complete(r)

External == \E p \in ExtPaths, c \in {Absent, "X"} : ExternalWrite(p, c)

Next ==
    \/ \E r \in Runs : RunStep(r)
    \/ External

Spec == Init /\ [][Next]_vars

\* The continuation of an activation after an awaited call: once the call
\* has returned or thrown, the event loop runs what follows it.
Resume(r) ==
    \/ ListLocal(r)
    \/ PushUpload(r)
    \/ PushDelete(r)
    \/ MergeUpload(r)
    \/ Download(r)
    \/ DownloadMkdir(r)
    \/ Complete(r)

\* Spec with every awaited call of a run returning or throwing in the end.
SpecLive == Spec /\ \A r \in Runs : WF_vars(Resume(r))

\* Activations that may overlap: a timer fires, or the button is pressed,
\* while an earlier sync() has not returned.
NextOverlap ==
    \/ \E r \in Overlapping : RunStep(r)
    \/ External

SpecOverlap == Init /\ [][NextOverlap]_vars

\* One activation, with the settings tab in use before, during and after
\* it.
NextSettings ==
    \/ \E r \in Runs : RunStep(r)
    \/ External
    \/ SettingsEdit

SpecSettings == Init /\ [][NextSettings]_vars

\* The log panel under addLog calls of overlapping activations, the clear
\* button and the reset button, from a panel an earlier session saved.
InitLog ==
    /\ \E k \in {0, LogCapacity - 1, LogCapacity} :
          settings = [WithRules(CHOOSE c \in Configs : ~ConfigMissing(c), <<>>)
                        EXCEPT !.logs = SavedLog(k)]
    /\ localFiles = [p \in FilePaths |-> Absent]
    /\ remote = [p \in FilePaths |-> Absent]
    /\ localDirs = {}
    /\ runs = [r \in Overlapping |-> IdleRun]
    /\ extWrites = 0
    /\ faults = 0
    /\ wire = NoTransfer

NextLog ==
    \/ \E r \in Overlapping : LogCall(r)
    \/ ClearLog
    \/ Reset
    \/ VerifyAndLock
    \/ \E v \in TokenInputs : EditToken(v)

SpecLog == InitLog /\ [][NextLog]_vars

\* One file content taken through the codec: encoded for an upload,
\* wrapped by the transport, decoded by a download.
InitCodec ==
    /\ \E b \in ByteSeqs : wire = [NoTransfer EXCEPT !.pc = "raw", !.bytes = b]
    /\ settings = WithRules(CHOOSE c \in Configs : ~ConfigMissing(c), <<>>)
    /\ localFiles = [p \in FilePaths |-> Absent]
    /\ remote = [p \in FilePaths |-> Absent]
    /\ localDirs = {}
    /\ runs = [r \in Overlapping |-> IdleRun]
    /\ extWrites = 0
    /\ faults = 0

NextCodec ==
    \/ Encode
    \/ \E k \in 0..(4 * MaxBytes), ch \in WhiteSpace : Wrap(k, ch)
    \/ Decode

SpecCodec == InitCodec /\ [][NextCodec]_vars

\* One activation, with the rule dialog in use before, during and after it.
NextRules ==
    \/ \E r \in Runs : RunStep(r)
    \/ External
    \/ RuleEdit

SpecRules == Init /\ [][NextRules]_vars

------------------------------------------------------------------------------
(* What a run planned and what it did *)

\* The run has returned after its executor was entered: neither the
\* configuration check, nor the tree request, nor the enumeration ended it.
Executed(rs) ==
    rs.pc = "done" /\ rs.at \notin {"config", "tree", "list"}

CountOps(rs, op, path) ==
    Cardinality({k \in 1..Len(rs.hist) : rs.hist[k].op = op /\ rs.hist[k].path = path})

Did(rs, op, path) == CountOps(rs, op, path) > 0

SomeFailed(rs) == \E k \in 1..Len(rs.hist) : ~rs.hist[k].ok

PathsOf(entries) == {entries[k].path : k \in 1..Len(entries)}

ListedPaths(rs) == PathsOf(rs.remotes)

LocalSet(rs) == {rs.localPaths[k] : k \in 1..Len(rs.localPaths)}

\* The sha the fetched tree lists for a path, Undefined when it lists none.
ListedSha(rs, path) ==
    IF \E k \in 1..Len(rs.remotes) : rs.remotes[k].path = path
    THEN (CHOOSE e \in {rs.remotes[k] : k \in 1..Len(rs.remotes)} : e.path = path).sha
    ELSE Undefined

\* The plans of section 4.5 of the specification, from the two sets the run
\* fetched and the rules in force: the paths to upload, to delete remotely
\* and to download.
PlannedUploads(rs, rules) ==
    CASE rs.mode = "local_to_remote" -> LocalSet(rs)
      [] rs.mode = "merge" -> LocalSet(rs) \ ListedPaths(rs)
      [] OTHER -> {}

PlannedDeletes(rs, rules) ==
    CASE rs.mode = "local_to_remote" ->
           {p \in ListedPaths(rs) : p \notin LocalSet(rs) /\ ~isExcluded(rules, p)}
      [] OTHER -> {}

PlannedDownloads(rs, rules) ==
    CASE rs.mode = "remote_to_local" ->
           {p \in ListedPaths(rs) : ~isExcluded(rules, p)}
      [] rs.mode = "merge" ->
           {p \in ListedPaths(rs) : ~isExcluded(rules, p) /\ p \notin LocalSet(rs)}
      [] OTHER -> {}

\* Every planned operation was begun: the read of an upload, the DELETE,
\* the GET of a download.
AllAttempted(rs, rules) ==
    /\ \A p \in PlannedUploads(rs, rules) : Did(rs, "read", p)
    /\ \A p \in PlannedDeletes(rs, rules) : Did(rs, "DELETE", p)
    /\ \A p \in PlannedDownloads(rs, rules) : Did(rs, "GET", p)

------------------------------------------------------------------------------
(* Claims *)

\* C1. Partial-failure containment, for every mode: when an operation of a
\* run's plan has failed (a rejected or failed upload, download or delete,
\* a failed local read or write), the run still attempts every other
\* operation of the plan before it returns.
C1_PartialFailureContainment ==
    \A r \in Overlapping :
        (Executed(runs[r]) /\ SomeFailed(runs[r]))
            => AllAttempted(runs[r], settings.excludedRules)

\* C2. At most one sync run executes at a time: no sync() call is between
\* its start and its return while another one is.
C2_AtMostOneRun ==
    Cardinality({r \in Overlapping : runs[r].pc \notin {"idle", "done"}}) <= 1

\* C3. Merge never overwrites: a merge run issues no upload and no download
\* of a path that was both a local file and a remote blob when the run
\* began, whatever the exclusion rules.
C3_MergeNeverOverwrites ==
    \A r \in Overlapping :
        runs[r].mode = "merge" =>
            \A k \in 1..Len(runs[r].hist) :
                runs[r].hist[k].op \in {"PUT", "GET", "write"}
                    => runs[r].hist[k].path \notin (runs[r].preLocal \cap runs[r].preRemote)

\* C4. Lost-update prevention.  Every PUT a run sends carries the sha the
\* tree fetched at the start of that run lists for the path, and none when
\* the tree does not list the path; every DELETE is for a listed path and
\* carries its listed sha; and a PUT or DELETE that replaced or removed a
\* blob replaced or removed the version the tree listed.
C4_LostUpdatePrevention ==
    \A r \in Overlapping :
        \A k \in 1..Len(runs[r].hist) :
            LET h == runs[r].hist[k]
                listed == ListedSha(runs[r], h.path)
            IN /\ h.op = "PUT" => h.sha = listed
               /\ h.op = "DELETE" => h.path \in ListedPaths(runs[r]) /\ h.sha = listed
               /\ (h.op \in {"PUT", "DELETE"} /\ h.ok /\ h.old # Absent)
                     => h.path \in ListedPaths(runs[r]) /\ ShaOf(h.old) = listed

\* Two overlapping runs listed the same version of a path; one replaced it,
\* and the repository rejected the other's request, which carried the same,
\* now stale, sha (no request failed on its own, no other client wrote).
C4_Witness ==
    /\ faults = 0
    /\ extWrites = 0
    /\ \E r1 \in Overlapping, r2 \in Overlapping :
          /\ r1 # r2
          /\ \E k1 \in 1..Len(runs[r1].hist), k2 \in 1..Len(runs[r2].hist) :
                LET h1 == runs[r1].hist[k1]
                    h2 == runs[r2].hist[k2]
                IN /\ h1.op = "PUT" /\ h1.ok /\ h1.old # Absent
                   /\ h2.op \in {"PUT", "DELETE"} /\ ~h2.ok
                   /\ h2.path = h1.path /\ h2.sha = h1.sha

\* C5. LocalToRemote plan: a local_to_remote run that ran its executor made
\* exactly one upload for every path of the local path set (the read, then
\* one PUT with the listed sha, or with none for an unlisted path), exactly
\* one DELETE with the listed sha for every listed path that is not local
\* and not excluded, and no other remote write.
C5_PushPlan ==
    \A r \in Overlapping :
        LET rs == runs[r]
        IN (rs.mode = "local_to_remote" /\ Executed(rs)) =>
              /\ \A p \in LocalSet(rs) :
                    /\ CountOps(rs, "read", p) = 1
                    /\ CountOps(rs, "PUT", p) <= 1
              /\ \A p \in PlannedDeletes(rs, settings.excludedRules) :
                    CountOps(rs, "DELETE", p) = 1
              /\ \A k \in 1..Len(rs.hist) :
                    LET h == rs.hist[k]
                    IN /\ h.op = "read" /\ h.ok => CountOps(rs, "PUT", h.path) = 1
                       /\ h.op = "PUT" =>
                            h.path \in LocalSet(rs) /\ h.sha = ListedSha(rs, h.path)
                       /\ h.op = "DELETE" =>
                            /\ h.path \in PlannedDeletes(rs, settings.excludedRules)
                            /\ h.sha = ListedSha(rs, h.path)

\* C6. Merge plan: a merge run that ran its executor uploaded exactly the
\* local paths the fetched tree does not list (the read, then one PUT with
\* no sha), downloaded exactly the listed, non-excluded paths that are not
\* in the local path set, and touched no path that is on both sides.
C6_MergePlan ==
    \A r \in Overlapping :
        LET rs == runs[r]
            ups == PlannedUploads(rs, settings.excludedRules)
            downs == PlannedDownloads(rs, settings.excludedRules)
        IN (rs.mode = "merge" /\ Executed(rs)) =>
              /\ \A p \in ups : CountOps(rs, "read", p) = 1
              /\ \A p \in downs : CountOps(rs, "GET", p) = 1
              /\ \A k \in 1..Len(rs.hist) :
                    LET h == rs.hist[k]
                    IN /\ h.op = "read" /\ h.ok => CountOps(rs, "PUT", h.path) = 1
                       /\ h.op \in {"read", "PUT"} => h.path \in ups
                       /\ h.op = "PUT" => h.sha = Undefined
                       /\ h.op \in {"GET", "write"} => h.path \in downs
                       /\ h.op # "DELETE"

\* C7. RemoteToLocal plan: a remote_to_local run issues a GET and a local
\* write only for the non-excluded entries of the tree it fetched; once the
\* executor was entered the run completes, having issued exactly one GET for
\* each of them, whether or not a local file existed at the path, and
\* having gone on to the local write (or to a mkdir that failed) after
\* every GET that succeeded.
C7_PullPlan ==
    \A r \in Overlapping :
        LET rs == runs[r]
            downs == PlannedDownloads(rs, settings.excludedRules)
        IN rs.mode = "remote_to_local" =>
              /\ \A k \in 1..Len(rs.hist) :
                    /\ rs.hist[k].op \in {"GET", "write"} => rs.hist[k].path \in downs
                    /\ rs.hist[k].op = "mkdir" =>
                          \E p \in downs : StartsWith(p, rs.hist[k].path \o <<"/">>)
              /\ Executed(rs) =>
                    /\ rs.at = "finish"
                    /\ \A p \in downs :
                          /\ CountOps(rs, "GET", p) = 1
                          /\ (\E k \in 1..Len(rs.hist) :
                                 rs.hist[k].op = "GET" /\ rs.hist[k].path = p /\ rs.hist[k].ok)
                               => \/ CountOps(rs, "write", p) = 1
                                  \/ \E k \in 1..Len(rs.hist) :
                                        /\ rs.hist[k].op = "mkdir" /\ ~rs.hist[k].ok
                                        /\ StartsWith(p, rs.hist[k].path \o <<"/">>)

\* A completed remote_to_local run that overwrote a local file and also
\* wrote a file that did not exist locally.
C7_Witness ==
    \E r \in Overlapping :
        /\ runs[r].mode = "remote_to_local" /\ runs[r].at = "finish"
        /\ \E k1 \in 1..Len(runs[r].hist), k2 \in 1..Len(runs[r].hist) :
              /\ runs[r].hist[k1].op = "write" /\ runs[r].hist[k1].ok
              /\ runs[r].hist[k1].old = "L"
              /\ runs[r].hist[k2].op = "write" /\ runs[r].hist[k2].ok
              /\ runs[r].hist[k2].old = Absent

\* C8. Merge never deletes: no step of a merge run removes a path from the
\* repository, a file or a directory from the vault, and a merge run issues
\* no DELETE, whichever of its operations fail.
C8_MergeNeverDeletes ==
    [][\A r \in Overlapping :
          (runs'[r] # runs[r] /\ runs'[r].mode = "merge") =>
              /\ \A p \in FilePaths : remote[p] # Absent => remote'[p] # Absent
              /\ \A p \in FilePaths : localFiles[p] # Absent => localFiles'[p] # Absent
              /\ localDirs \subseteq localDirs'
              /\ \A k \in 1..Len(runs'[r].hist) : runs'[r].hist[k].op # "DELETE"]_vars

\* A merge run that returned after an upload and a download, one of its
\* operations having failed, with every path it found still in place.
C8_Witness ==
    \E r \in Overlapping :
        /\ runs[r].mode = "merge" /\ runs[r].pc = "done"
        /\ \E k \in 1..Len(runs[r].hist) : runs[r].hist[k].op = "PUT" /\ runs[r].hist[k].ok
        /\ \E k \in 1..Len(runs[r].hist) : runs[r].hist[k].op = "GET" /\ ~runs[r].hist[k].ok
        /\ \E k \in 1..Len(runs[r].hist) : runs[r].hist[k].op = "write" /\ runs[r].hist[k].ok
        /\ runs[r].preRemote \subseteq Present(remote)
        /\ runs[r].preLocal \subseteq Present(localFiles)

\* C9. RemoteToLocal frame: no step of a remote_to_local run changes the
\* repository, the run issues no PUT and no DELETE, and a step of it leaves
\* every local file whose path the fetched tree does not list as it was.
C9_PullFrame ==
    [][\A r \in Overlapping :
          (runs'[r] # runs[r] /\ runs'[r].mode = "remote_to_local") =>
              /\ remote' = remote
              /\ \A p \in FilePaths \ ListedPaths(runs'[r]) : localFiles'[p] = localFiles[p]
              /\ \A k \in 1..Len(runs'[r].hist) :
                    runs'[r].hist[k].op \notin {"PUT", "DELETE"}]_vars

\* A completed remote_to_local run that wrote a file, in a vault holding a
\* file the repository does not: that file is as it was.
C9_Witness ==
    \E r \in Overlapping :
        /\ runs[r].mode = "remote_to_local" /\ runs[r].at = "finish"
        /\ \E k \in 1..Len(runs[r].hist) : runs[r].hist[k].op = "write" /\ runs[r].hist[k].ok
        /\ \E p \in runs[r].preLocal \ ListedPaths(runs[r]) : localFiles[p] = "L"

\* C10. Fatal-to-run errors transfer nothing: a run called with the token
\* or the repository missing, or ended by the tree request or by the local
\* enumeration, issued no PUT, DELETE or GET, no local write and no mkdir,
\* and did not report completion.
C10_FatalTransfersNothing ==
    \A r \in Overlapping :
        LET rs == runs[r]
            silent == /\ rs.hist = <<>>
                      /\ rs.outcome # "completed"
                      /\ \A k \in 1..Len(rs.log) : rs.log[k].tag # "done"
        IN /\ (rs.pc # "idle" /\ (settings.token = "" \/ settings.repo = "")) => silent
           /\ rs.at \in {"tree", "list"} => silent /\ rs.pc = "done" /\ rs.outcome = "error"

\* A run whose tree request listed blobs and whose local enumeration then
\* failed.
C10_Witness ==
    \E r \in Overlapping :
        /\ runs[r].pc = "done" /\ runs[r].at = "list"
        /\ runs[r].remotes # <<>>
        /\ runs[r].hist = <<>>

\* C11. A run that had per-file failures still reports completion: for
\* every mode, a run whose tree request and local enumeration succeeded
\* ends with the completion entry as its last log entry and with no
\* run-level error entry, whichever of its uploads, downloads and deletes
\* failed.
C11_CompletionDespiteFailures ==
    \A r \in Overlapping :
        Executed(runs[r]) =>
            /\ runs[r].outcome = "completed"
            /\ runs[r].log[Len(runs[r].log)].tag = "done"
            /\ \A k \in 1..Len(runs[r].log) : runs[r].log[k].tag # "error"

\* A local_to_remote run r2 called after the local_to_remote run r1 had
\* completed with every operation successful, nothing but the two runs
\* having touched the vault or the repository.
PushTwice(r1, r2) ==
    /\ r1 \in runs[r2].began
    /\ runs[r1].mode = "local_to_remote" /\ runs[r2].mode = "local_to_remote"
    /\ runs[r1].outcome = "completed" /\ ~SomeFailed(runs[r1])
    /\ extWrites = 0
    /\ \A q \in Overlapping \ {r1, r2} : runs[q].pc = "idle"

\* C12, as stated. LocalToRemote idempotence: a local_to_remote run that
\* follows a fully successful local_to_remote run, with no local or
\* external change in between, issues no upload and no delete.
C12_SecondPushIssuesNothing ==
    \A r1 \in Overlapping, r2 \in Overlapping :
        PushTwice(r1, r2) =>
            \A k \in 1..Len(runs[r2].hist) : runs[r2].hist[k].op \notin {"PUT", "DELETE"}

\* C12, amended. Such a second run issues no delete and creates nothing:
\* every upload it issues is an update that carries the token its tree
\* lists for the path, no step of it changes the repository, and the paths
\* its tree lists, excluded ones aside, are the local path set.
C12_SecondPushChangesNothing ==
    [][\A r1 \in Overlapping, r2 \in Overlapping :
          (PushTwice(r1, r2)' /\ runs'[r2] # runs[r2]) =>
              /\ remote' = remote
              /\ \A k \in 1..Len(runs'[r2].hist) :
                    /\ runs'[r2].hist[k].op # "DELETE"
                    /\ runs'[r2].hist[k].op = "PUT" =>
                          /\ runs'[r2].hist[k].sha # Undefined
                          /\ runs'[r2].hist[k].sha = ListedSha(runs'[r2], runs'[r2].hist[k].path)
              /\ runs'[r2].pc \notin {"tree", "list", "done"} =>
                    {p \in ListedPaths(runs'[r2]) : ~isExcluded(settings.excludedRules, p)}
                        = LocalSet(runs'[r2])]_vars

\* A second local_to_remote run that completed after re-uploading a file
\* the first run had created.
C12_Witness ==
    \E r1 \in Overlapping, r2 \in Overlapping :
        /\ PushTwice(r1, r2)
        /\ runs[r2].outcome = "completed"
        /\ \E k \in 1..Len(runs[r1].hist) :
              /\ runs[r1].hist[k].op = "PUT" /\ runs[r1].hist[k].sha = Undefined
              /\ \E j \in 1..Len(runs[r2].hist) :
                    /\ runs[r2].hist[j].op = "PUT" /\ runs[r2].hist[j].ok
                    /\ runs[r2].hist[j].path = runs[r1].hist[k].path
        /\ \E k \in 1..Len(runs[r1].hist) : runs[r1].hist[k].op = "DELETE"

\* The matcher as the rule dialog describes it ("supports the wildcard *"):
\* "*" stands for zero or more of any character, every other character of
\* the rule for itself, the whole path being matched.
RECURSIVE WildcardTest(_, _)
WildcardTest(rule, path) ==
    IF rule = <<>> THEN path = <<>>
    ELSE IF Head(rule) = "*"
         THEN \/ WildcardTest(Tail(rule), path)
              \/ path # <<>> /\ WildcardTest(rule, Tail(path))
    ELSE path # <<>> /\ Head(path) = Head(rule) /\ WildcardTest(Tail(rule), Tail(path))

\* C13. Exclusion matcher: for every path and every rule list, isExcluded
\* is true exactly when the path equals some rule, or starts with some rule
\* followed by "/", or matches some rule as a pattern anchored at both ends
\* in which "*" stands for zero or more of any character; the order of the
\* rules does not matter.
C13_ExclusionMatcher ==
    \A path \in FilePaths \cup DirPaths :
        LET rules == settings.excludedRules
            ruleSet == {rules[k] : k \in 1..Len(rules)}
        IN isExcluded(rules, path)
              <=> \E rule \in ruleSet :
                     \/ path = rule
                     \/ StartsWith(path, rule \o <<"/">>)
                     \/ WildcardTest(rule, path)

NewOps(r) ==
    {k \in 1..Len(runs'[r].hist) : k > Len(runs[r].hist)}

\* C15. Directory creation for a download target is idempotent and comes
\* before the write: when downloadFile writes a file every ancestor
\* directory of its path exists, ancestors are created outermost first,
\* and, storage faults aside, no mkdir of downloadFile fails: a directory
\* that is already there, also one that appeared between the exists check
\* and the mkdir call, does not fail the download.
C15_MkdirIdempotent ==
    [][\A r \in Overlapping : \A k \in NewOps(r) :
          LET h == runs'[r].hist[k]
          IN /\ (h.op = "write" /\ h.ok) =>
                   \A j \in 1..Len(Ancestors(h.path)) : Ancestors(h.path)[j] \in localDirs'
             /\ (h.op = "mkdir" /\ k > 1 /\ runs'[r].hist[k - 1].op = "mkdir") =>
                   Len(runs'[r].hist[k - 1].path) < Len(h.path)
             /\ (h.op = "mkdir" /\ faults' = 0) => h.ok]_vars

\* C16. Local and remote filtering agree: when a run enumerates the vault,
\* a file that exists is left out of the local path set exactly when
\* isExcluded is true of its path, so a listed remote entry that is not
\* excluded is missing from the local path set only when no local file has
\* its path; and a local_to_remote run deletes no remote path whose file
\* exists in the vault.
C16_FiltersAgree ==
    [][\A r \in Overlapping :
          /\ (runs[r].pc = "list" /\ runs'[r].pc \notin {"list", "done"}) =>
                \A p \in Present(localFiles) :
                    p \notin LocalSet(runs'[r]) <=> isExcluded(settings.excludedRules, p)
          /\ \A k \in NewOps(r) :
                runs'[r].hist[k].op = "DELETE" => localFiles[runs'[r].hist[k].path] = Absent]_vars

\* C17. Run-stable target: every PUT, DELETE and content GET of a run is
\* addressed to the repository and the branch, with the token, that the
\* run's tree request was addressed to, whatever the settings tab does
\* while the run is in progress.
C17_RunStableTarget ==
    \A r \in Overlapping : \A k \in 1..Len(runs[r].hist) :
        runs[r].hist[k].op \in {"PUT", "DELETE", "GET"}
            => runs[r].hist[k].to = runs[r].tree

\* C18. Excluded paths never participate: whenever a run issues a PUT, a
\* DELETE or the local write of a download, isExcluded is false of the path
\* under the exclusion rules in force at that moment, the rule dialog
\* being free to add and remove rules while the run is in progress.
C18_ExcludedNeverParticipate ==
    [][\A r \in Overlapping : \A k \in NewOps(r) :
          runs'[r].hist[k].op \in {"PUT", "DELETE", "write"}
              => ~isExcluded(settings.excludedRules, runs'[r].hist[k].path)]_vars

\* The entries of a run's log that end it: the completion entry and the
\* run-level error entry.
Terminals(rs) == {k \in 1..Len(rs.log) : rs.log[k].tag \in {"done", "error"}}

\* C19. Every run ends: if every awaited call returns or throws, a run
\* that has passed the configuration check returns in the end, and a run
\* that has returned after passing the check has logged its start entry
\* first and exactly one terminal entry, the completion entry or one
\* run-level error entry, as its last entry.
C19_EveryRunEnds ==
    /\ \A r \in Runs : (runs[r].pc \notin {"idle", "done"}) ~> (runs[r].pc = "done")
    /\ [](\A r \in Runs :
            (runs[r].pc = "done" /\ runs[r].at # "config") =>
                /\ runs[r].log[1].tag = "start"
                /\ Terminals(runs[r]) = {Len(runs[r].log)}
                /\ Len(runs[r].log) > 1)
    /\ [](\A r \in Runs :
            runs[r].pc \notin {"idle", "done"} => Terminals(runs[r]) = {})

\* A run that returned with the completion entry after one of its
\* downloads had failed, and so had a per-path failure entry before it.
C19_Witness ==
    \E r \in Runs :
        /\ runs[r].pc = "done" /\ runs[r].outcome = "completed"
        /\ \E k \in 1..Len(runs[r].log) : runs[r].log[k].tag = "download_failed"
        /\ \E k \in 1..Len(runs[r].hist) : runs[r].hist[k].op = "write" /\ runs[r].hist[k].ok

\* C20. Bounded log: from a log of at most 10 entries, under addLog calls
\* of overlapping runs, the clear button and the reset button, the log
\* never holds more than 10 entries, its entries are ordered most recent
\* first, and an addLog call puts its entry at the front of what was there,
\* the oldest entry being dropped when that makes more than 10.
C20_BoundedLog ==
    /\ [](/\ Len(settings.logs) <= 10
          /\ \A k \in 1..Len(settings.logs) - 1 : settings.logs[k].n > settings.logs[k + 1].n)
    /\ [][\A r \in Overlapping :
            runs'[r].log # runs[r].log =>
                /\ Head(settings'.logs) = [n |-> Clock', by |-> r]
                /\ Tail(settings'.logs) =
                      SubSeq(settings.logs, 1, IF Len(settings.logs) < 10
                                               THEN Len(settings.logs) ELSE 9)]_vars

\* A full log, all of it logged in this session by two activations over a
\* full log of an earlier session, after entries of this session were
\* dropped too.
C20_Witness ==
    /\ Len(settings.logs) = 10
    /\ settings.logs[10].n >= 2
    /\ \E k \in 1..10 : settings.logs[k].by = 1
    /\ \E k \in 1..10 : settings.logs[k].by = 2
    /\ Clock = 11

====
